---- MODULE Spec2Model ----
(***************************************************************************)
(* Model of the structured-op matcher engine of                            *)
(* llvm-external-projects/iree-dialects/lib/Transforms/TransformMatchers.cpp *)
(*                                                                         *)
(* The IR is a read-only graph of operations.  A matcher is an ordered     *)
(* list of predicates; match(op) evaluates them with llvm::all_of and      *)
(* records the op in the matcher's `captured` slot on success.  Predicates *)
(* may write capture cells and may invoke nested matchers.                 *)
(***************************************************************************)
EXTENDS Integers, Sequences, FiniteSets, TLC

(***************************************************************************)
(* Bounds of the model.                                                    *)
(***************************************************************************)
\* the dimension indices tried by the dimension predicates are -MaxIdx..MaxIdx
MaxIdx == 4
\* number of groups / length of one group of a MatchCallbackResult
MaxGroups == 3
MaxGroupLen == 3
\* the operand / result positions tried on the ops of f3 are -MaxPos..MaxPos
MaxPos == 3

(***************************************************************************)
(* The IR graph (external, read-only).                                     *)
(***************************************************************************)
NoOp == "none"

\* ShapedType's marker for a dynamic size, as returned by getStaticLoopRanges()
kDynamic == -1

Par == "parallel"
Red == "reduction"

\* a value: result #idx of operation op, or (op = NoOp) a block argument
Res(o, i) == [op |-> o, idx |-> i]
BlockArg(i) == [op |-> NoOp, idx |-> i]

\* the classes of an indexing map: a permutation, a projected permutation
\* that is not a permutation, anything else
MapPerm == "permutation"
MapProj == "projected"
MapOther == "other"

\* the operation names the matchers filter on
FillOp == "linalg.fill"
GenericOp == "linalg.generic"
ExtractSliceOp == "tensor.extract_slice"
ForeachThreadOp == "scf.foreach_thread"
OtherOp == "other"

\* An operation.  Unless said otherwise its indexing maps are permutations,
\* its outputs hold 32-bit elements and each is populated by one combiner.
Node(lin, til, par, shape, iters, ins, inits, nres) ==
  [linalg |-> lin, tilable |-> til, parent |-> par, shape |-> shape,
   iters |-> iters, inputs |-> ins, inits |-> inits, nres |-> nres,
   name |-> IF lin THEN GenericOp ELSE OtherOp,
   inMaps |-> [i \in 1..Len(ins) |-> MapPerm],
   outMaps |-> [i \in 1..Len(inits) |-> MapPerm],
   widths |-> [i \in 1..Len(inits) |-> 32],
   combiners |-> [i \in 1..Len(inits) |-> 1]]

\* a non-structured operation (func.return, tensor.pad, ...) using `operands`
Other(til, par, operands, nres) ==
  Node(FALSE, til, par, <<>>, <<>>, operands, <<>>, nres)

\* Operations in creation order.  Function f1 holds a 2-d reduction with a
\* fill of its init, a leading and a trailing elementwise op; f2 holds a 3-d
\* reduction of a block argument with a fill of its init and one trailing op.
\* trail2 uses the reduction's result twice.  pad2 is a tilable non-structured
\* op that the driver inserts later (InsertOp).
BaseOrder == <<"fill1", "lead1", "red1", "trail1", "ret1",
               "fill2", "red2", "trail2", "ret2", "pad2">>

BaseOps == {BaseOrder[i] : i \in 1..Len(BaseOrder)}

\* Function g holds a fill, one reduction that the driver swaps for another
\* one, and the return of its result.  The reductions differ in one feature
\* that makeReductionMatcher looks at.
RootOrder == <<"r1", "r2", "r3", "r4", "r5", "r2par", "r3red", "r2in2", "r2inO",
               "r2out2", "r2outP", "r2outO", "r2w16", "r3w16", "r2c2", "r2c0",
               "r2arg">>

RootOps == {RootOrder[i] : i \in 1..Len(RootOrder)}

RedOrder == <<"fillR">> \o RootOrder \o <<"retR">>

\* Function f3 holds values that reach their producers and consumers through
\* slices and loops:
\*   src3's result is used by cons3 and, created later, by the slice slA,
\*     whose result useA takes;
\*   outA and outB are the two outputs of loop3, whose body holds the slice
\*     slI of the first output argument, bodyA writing into slI, and bodyB
\*     writing into the second output argument;
\*   loop4 takes cntD as its thread count and outC as its one output, which
\*     bodyC writes into;
\*   dead3's result and the result of slD, the only use of srcD, are unused;
\*   cons3 has two inputs and one init, wide3 one input and two inits, the
\*     second produced by ok3.
SubOrder == <<"src3", "cons3", "slA", "useA", "outA", "outB", "loop3", "slI",
              "bodyA", "bodyB", "cntD", "outC", "loop4", "bodyC", "dead3",
              "srcD", "slD", "ok3", "wide3", "ret3">>

SubOps == {SubOrder[i] : i \in 1..Len(SubOrder)}

OpOrder == BaseOrder \o RedOrder \o SubOrder

Ops == {OpOrder[i] : i \in 1..Len(OpOrder)}

\* a reduction of function g: one result per init, inits[1] produced by fillR
\* unless the op takes a block argument there
Root(shape, iters, inMaps, outMaps, width, combiner, init) ==
  [Node(TRUE, TRUE, "g", shape, iters,
        [i \in 1..Len(inMaps) |-> BlockArg(12 + i)],
        [i \in 1..Len(outMaps) |-> IF i = 1 THEN init ELSE BlockArg(14 + i)],
        Len(outMaps))
   EXCEPT !.inMaps = inMaps, !.outMaps = outMaps,
          !.widths = [i \in 1..Len(outMaps) |-> width],
          !.combiners = [i \in 1..Len(outMaps) |-> combiner]]

\* the 2-d reduction of the scenario: 128 parallel x 64 reduction
Root2(inMaps, outMaps, width, combiner, init) ==
  Root(<<128, 64>>, <<Par, Red>>, inMaps, outMaps, width, combiner, init)

Insertable == {"pad2"}

RedGraph(o) ==
  CASE o = "fillR"  -> [Node(TRUE, TRUE, "g", <<128>>, <<Par>>,
                             <<BlockArg(11)>>, <<BlockArg(12)>>, 1)
                        EXCEPT !.name = FillOp]
    [] o = "retR"   -> Other(FALSE, "g", [i \in 1..Len(RootOrder) |-> Res(RootOrder[i], 0)], 0)
    [] o = "r1"     -> Root(<<64>>, <<Red>>, <<MapPerm>>, <<MapProj>>, 32, 1, Res("fillR", 0))
    [] o = "r2"     -> Root2(<<MapPerm>>, <<MapProj>>, 32, 1, Res("fillR", 0))
    [] o = "r3"     -> Root(<<2, kDynamic, 6>>, <<Par, Par, Red>>,
                            <<MapProj>>, <<MapProj>>, 32, 1, Res("fillR", 0))
    [] o = "r4"     -> Root(<<2, 3, 5, 7>>, <<Par, Par, Par, Red>>,
                            <<MapPerm>>, <<MapProj>>, 32, 1, Res("fillR", 0))
    [] o = "r5"     -> Root(<<2, 3, 5, 7, 9>>, <<Par, Par, Par, Par, Red>>,
                            <<MapPerm>>, <<MapProj>>, 32, 1, Res("fillR", 0))
    [] o = "r2par"  -> Root(<<128, 64>>, <<Par, Par>>,
                            <<MapPerm>>, <<MapProj>>, 32, 1, Res("fillR", 0))
    [] o = "r3red"  -> Root(<<2, 3, 5>>, <<Par, Red, Red>>,
                            <<MapPerm>>, <<MapProj>>, 32, 1, Res("fillR", 0))
    [] o = "r2in2"  -> Root2(<<MapPerm, MapPerm>>, <<MapProj>>, 32, 1, Res("fillR", 0))
    [] o = "r2inO"  -> Root2(<<MapOther>>, <<MapProj>>, 32, 1, Res("fillR", 0))
    [] o = "r2out2" -> Root2(<<MapPerm>>, <<MapProj, MapProj>>, 32, 1, Res("fillR", 0))
    [] o = "r2outP" -> Root2(<<MapPerm>>, <<MapPerm>>, 32, 1, Res("fillR", 0))
    [] o = "r2outO" -> Root2(<<MapPerm>>, <<MapOther>>, 32, 1, Res("fillR", 0))
    [] o = "r2w16"  -> Root2(<<MapPerm>>, <<MapProj>>, 16, 1, Res("fillR", 0))
    [] o = "r3w16"  -> Root(<<2, 128, 64>>, <<Par, Par, Red>>,
                            <<MapPerm>>, <<MapProj>>, 16, 1, Res("fillR", 0))
    [] o = "r2c2"   -> Root2(<<MapPerm>>, <<MapProj>>, 32, 2, Res("fillR", 0))
    [] o = "r2c0"   -> Root2(<<MapPerm>>, <<MapProj>>, 32, 0, Res("fillR", 0))
    [] o = "r2arg"  -> Root2(<<MapPerm>>, <<MapProj>>, 32, 1, BlockArg(15))

\* a 1-d elementwise op of f3
Elementwise(ins, inits) == Node(TRUE, TRUE, "f3", <<4>>, <<Par>>, ins, inits, Len(inits))

\* a 2-d elementwise op of f3
Elementwise2(ins, inits) ==
  Node(TRUE, TRUE, "f3", <<4, 8>>, <<Par, Par>>, ins, inits, Len(inits))

\* tensor.extract_slice of source
ExtractSlice(source) == [Other(FALSE, "f3", <<source>>, 1) EXCEPT !.name = ExtractSliceOp]

\* scf.foreach_thread with the given operands and one result per output
ForeachThread(operands, nres) ==
  [Other(FALSE, "f3", operands, nres) EXCEPT !.name = ForeachThreadOp]

SubGraph(o) ==
  CASE o = "src3"  -> Elementwise(<<BlockArg(30)>>, <<BlockArg(31)>>)
    [] o = "cons3" -> Elementwise(<<Res("src3", 0), BlockArg(32)>>, <<BlockArg(33)>>)
    [] o = "slA"   -> ExtractSlice(Res("src3", 0))
    [] o = "useA"  -> Elementwise(<<Res("slA", 0)>>, <<BlockArg(34)>>)
    [] o = "outA"  -> Elementwise2(<<BlockArg(35)>>, <<BlockArg(36)>>)
    [] o = "outB"  -> Elementwise(<<BlockArg(35)>>, <<BlockArg(37)>>)
    [] o = "loop3" -> ForeachThread(<<Res("outA", 0), Res("outB", 0)>>, 2)
    [] o = "slI"   -> ExtractSlice(BlockArg(40))
    [] o = "bodyA" -> Elementwise(<<BlockArg(38)>>, <<Res("slI", 0)>>)
    [] o = "bodyB" -> Elementwise(<<BlockArg(38)>>, <<BlockArg(41)>>)
    [] o = "cntD"  -> Other(FALSE, "f3", <<>>, 1)
    [] o = "outC"  -> Elementwise(<<BlockArg(35)>>, <<BlockArg(39)>>)
    [] o = "loop4" -> ForeachThread(<<Res("cntD", 0), Res("outC", 0)>>, 1)
    [] o = "bodyC" -> Elementwise(<<BlockArg(38)>>, <<BlockArg(42)>>)
    [] o = "dead3" -> Elementwise(<<BlockArg(30)>>, <<BlockArg(43)>>)
    [] o = "srcD"  -> Elementwise(<<BlockArg(30)>>, <<BlockArg(44)>>)
    [] o = "slD"   -> ExtractSlice(Res("srcD", 0))
    [] o = "ok3"   -> Elementwise2(<<BlockArg(35)>>, <<BlockArg(45)>>)
    [] o = "wide3" -> Elementwise(<<BlockArg(30)>>, <<BlockArg(46), Res("ok3", 0)>>)
    [] o = "ret3"  -> Other(FALSE, "f3", <<Res("useA", 0), Res("cons3", 0),
                                          Res("loop3", 0), Res("loop4", 0),
                                          Res("wide3", 0)>>, 0)

\* loop.getOutputBlockArguments(): the block arguments of the loop body that
\* stand for the loop's outputs, by number
OutputBlockArguments(loop) ==
  CASE loop = "loop3" -> <<40, 41>>
    [] loop = "loop4" -> <<42>>
    [] OTHER -> <<>>

\* loop.getTiedOpOperand(bbarg): the index of the loop operand the output
\* block argument is tied to
TiedOpOperand(bbarg) ==
  CASE bbarg = 40 -> 0
    [] bbarg = 41 -> 1
    [] bbarg = 42 -> 1

\* bbArg.getOwner()->getParentOp(): the loop, or the function, whose block
\* the argument belongs to
BlockParentOp(bbarg) ==
  CASE bbarg \in {40, 41} -> "loop3"
    [] bbarg = 42 -> "loop4"
    [] bbarg \in 0..4 -> "f1"
    [] bbarg \in 5..10 -> "f2"
    [] bbarg \in 11..19 -> "g"
    [] OTHER -> "f3"

Graph ==
  [o \in Ops |->
     CASE o = "fill1"  -> Node(TRUE, TRUE, "f1", <<4>>, <<Par>>,
                               <<BlockArg(0)>>, <<BlockArg(1)>>, 1)
       [] o = "lead1"  -> Node(TRUE, TRUE, "f1", <<4, 8>>, <<Par, Par>>,
                               <<BlockArg(2)>>, <<BlockArg(3)>>, 1)
       [] o = "red1"   -> Node(TRUE, TRUE, "f1", <<4, 8>>, <<Par, Red>>,
                               <<Res("lead1", 0)>>, <<Res("fill1", 0)>>, 1)
       [] o = "trail1" -> Node(TRUE, TRUE, "f1", <<4>>, <<Par>>,
                               <<Res("red1", 0)>>, <<BlockArg(4)>>, 1)
       [] o = "ret1"   -> Other(FALSE, "f1", <<Res("trail1", 0), Res("red1", 0)>>, 0)
       [] o = "fill2"  -> Node(TRUE, TRUE, "f2", <<2, kDynamic>>, <<Par, Par>>,
                               <<BlockArg(10)>>, <<BlockArg(6)>>, 1)
       [] o = "red2"   -> Node(TRUE, TRUE, "f2", <<2, kDynamic, 6>>, <<Par, Par, Red>>,
                               <<BlockArg(5)>>, <<Res("fill2", 0)>>, 1)
       [] o = "trail2" -> Node(TRUE, TRUE, "f2", <<2, kDynamic>>, <<Par, Par>>,
                               <<Res("red2", 0), Res("red2", 0)>>, <<BlockArg(7)>>, 1)
       [] o = "ret2"   -> Other(FALSE, "f2", <<Res("trail2", 0)>>, 0)
       [] o = "pad2"   -> Other(TRUE, "f2", <<BlockArg(5)>>, 1)
       [] o \in SubOps -> SubGraph(o)
       [] OTHER        -> RedGraph(o)]

\* the payload IR the matchers read: operation -> its node.  It is Graph all
\* along; which of its operations exist is `present`
VARIABLE ir

Scopes == {"f1", "f2"}

\* every function of the IR
Functions == Scopes \cup {"g", "f3"}

\* dyn_cast<linalg::LinalgOp>(op)
IsLinalg(o) == ir[o].linalg
\* linalgOp.getNumLoops(); getStaticLoopRanges() has one entry per loop
NumLoops(o) == Len(ir[o].shape)
StaticLoopRanges(o) == ir[o].shape
IteratorTypesArray(o) == ir[o].iters
NumDpsInputs(o) == Len(ir[o].inputs)
NumDpsInits(o) == Len(ir[o].inits)
NumResults(o) == ir[o].nres
\* linalgOp.getMatchingIndexingMap(operand) of the inputs / of the inits
InputMaps(o) == ir[o].inMaps
InitMaps(o) == ir[o].outMaps
\* AffineMap::isPermutation / isProjectedPermutation
IsPermutation(map) == map = MapPerm
IsProjectedPermutation(map) == map \in {MapPerm, MapProj}
\* the bit width of the element type of init i (0-based); 0 when the type is
\* not a shaped type of integers or floats
InitBitWidth(o, i) == ir[o].widths[i + 1]
\* the number of combiner ops matchReduction finds for output i (0-based);
\* 0 when matchReduction fails
NumCombiners(o, i) == ir[o].combiners[i + 1]
\* Value::getDefiningOp(): null for a block argument
DefiningOp(v) == v.op
\* ShapedType::isDynamic(size)
IsDynamic(size) == size = kDynamic
\* linalgOp->getParentOfType<func::FuncOp>(): null outside any function
ParentOfType(o) == ir[o].parent

Operands(o) == ir[o].inputs \o ir[o].inits

\* the operations nested under a function, in the order parent->walk and the
\* use lists see them
WalkOrder(parent) ==
  CASE parent = "f1" -> SubSeq(BaseOrder, 1, 5)
    [] parent = "f2" -> SubSeq(BaseOrder, 6, 10)
    [] parent = "g"  -> RedOrder
    [] parent = "f3" -> SubOrder
    [] OTHER -> <<>>

\* the function a value lives in
FunctionOf(v) ==
  IF v.op # NoOp THEN ir[v.op].parent
  ELSE IF BlockParentOp(v.idx) \in Functions THEN BlockParentOp(v.idx)
  ELSE ir[BlockParentOp(v.idx)].parent

RECURSIVE UsesIn(_, _, _, _)
\* the uses of v among the operands of o, last operand first
UsesIn(v, o, i, acc) ==
  IF i = 0 THEN acc
  ELSE UsesIn(v, o, i - 1, IF Operands(o)[i] = v THEN Append(acc, o) ELSE acc)

RECURSIVE UsersFrom(_, _, _, _)
\* Value::getUsers(): the use list holds the most recently created use first
UsersFrom(v, pres, i, acc) ==
  IF i = 0 THEN acc
  ELSE LET o == WalkOrder(FunctionOf(v))[i] IN
       UsersFrom(v, pres, i - 1,
                 IF o \in pres THEN UsesIn(v, o, Len(Operands(o)), acc) ELSE acc)

Users(v, pres) == UsersFrom(v, pres, Len(WalkOrder(FunctionOf(v))), <<>>)

RECURSIVE OperandUsesIn(_, _, _, _)
\* the uses of v among the operands of o as OpOperands, last operand first
OperandUsesIn(v, o, i, acc) ==
  IF i = 0 THEN acc
  ELSE OperandUsesIn(v, o, i - 1,
                     IF Operands(o)[i] = v THEN Append(acc, [owner |-> o, index |-> i - 1])
                     ELSE acc)

RECURSIVE UsesFrom(_, _, _, _)
\* Value::getUses(): like getUsers(), each use with its operand number
UsesFrom(v, pres, i, acc) ==
  IF i = 0 THEN acc
  ELSE LET o == WalkOrder(FunctionOf(v))[i] IN
       UsesFrom(v, pres, i - 1,
                IF o \in pres THEN OperandUsesIn(v, o, Len(Operands(o)), acc) ELSE acc)

Uses(v, pres) == UsesFrom(v, pres, Len(WalkOrder(FunctionOf(v))), <<>>)

(***************************************************************************)
(* The subset traversals.  Each do-while iteration is one operator, used   *)
(* both by the predicates, which run the loop to its end, and by the       *)
(* step-wise walk.  An iteration yields either the operation returned or   *)
(* the value the next iteration starts from.                               *)
(***************************************************************************)
Returns(op) == [done |-> TRUE, op |-> op, val |-> BlockArg(0)]
Continues(val) == [done |-> FALSE, op |-> NoOp, val |-> val]

\* dyn_cast<scf::ForeachThreadOp>(op) / dyn_cast<tensor::ExtractSliceOp>(op);
\* a function is neither
IsForeachThread(o) == o \in Ops /\ ir[o].name = ForeachThreadOp
IsExtractSlice(o) == o \in Ops /\ ir[o].name = ExtractSliceOp

\* one iteration of the loop of traverseSubsetsBackwards
backwardIteration(val) ==
  LET op == DefiningOp(val) IN
  IF op = NoOp
  THEN LET blockOp == BlockParentOp(val.idx) IN
       IF IsForeachThread(blockOp)
       THEN Continues(Operands(blockOp)[TiedOpOperand(val.idx) + 1])
       ELSE Returns(blockOp)
  ELSE IF IsExtractSlice(op) THEN Continues(ir[op].inputs[1])
  ELSE Returns(op)

RECURSIVE traverseSubsetsBackwardsFrom(_)
traverseSubsetsBackwardsFrom(it) ==
  IF it.done THEN it.op ELSE traverseSubsetsBackwardsFrom(backwardIteration(it.val))

traverseSubsetsBackwards(val) == traverseSubsetsBackwardsFrom(Continues(val))

RECURSIVE findIfNotTied(_, _, _)
\* llvm::find_if(range, bbarg -> loop.getTiedOpOperand(bbarg) != &use): the
\* 1-based place of the first output block argument whose tied operand is
\* not the use, Len(range) + 1 for range.end()
findIfNotTied(range, i, use) ==
  IF i > Len(range) THEN i
  ELSE IF TiedOpOperand(range[i]) # use.index THEN i
  ELSE findIfNotTied(range, i + 1, use)

RECURSIVE forLoop(_, _, _)
\* for (OpOperand &use : val.getUses()) over the use list the loop was
\* entered with: `continue` goes on with the next use of that list, val
\* holding what was assigned last
forLoop(uses, i, val) ==
  IF i > Len(uses) THEN Continues(val)
  ELSE LET use == uses[i]
           user == use.owner IN
       IF IsForeachThread(user)
       THEN LET range == OutputBlockArguments(user)
                it == findIfNotTied(range, 1, use) IN
            IF it > Len(range) THEN Returns(user)
            ELSE forLoop(uses, i + 1, BlockArg(range[it]))
       ELSE IF IsExtractSlice(user) THEN forLoop(uses, i + 1, Res(user, 0))
       ELSE Returns(user)

\* one iteration of the do-while loop of traverseSubsetsForwardAnyUse
forwardIteration(val, pres) == forLoop(Uses(val, pres), 1, val)

\* what a traversal that never returns yields
Diverges == "diverges"

RECURSIVE traverseSubsetsForwardAnyUse(_, _)
\* the loop run to its end.  An iteration over an empty use list leaves val
\* as it is, so every later iteration is the same one: the loop never exits
traverseSubsetsForwardAnyUse(val, pres) ==
  IF Uses(val, pres) = <<>> THEN Diverges
  ELSE LET it == forwardIteration(val, pres) IN
       IF it.done THEN it.op ELSE traverseSubsetsForwardAnyUse(it.val, pres)


(***************************************************************************)
(* Predicates.  A predicate is the closure pushed by one builder method;   *)
(* the record holds what the closure captured by value.                    *)
(***************************************************************************)
NoMatcher == "nomatcher"
NoCell == "nocell"

Pred(kind, dims, v, k, cell, nested, opt, ms) ==
  [kind |-> kind, dims |-> dims, v |-> v, k |-> k, cell |-> cell,
   nested |-> nested, opt |-> opt, ms |-> ms]

RankGE(v) == Pred("rankGE", <<>>, v, "", NoCell, NoMatcher, FALSE, <<>>)
RankLE(v) == Pred("rankLE", <<>>, v, "", NoCell, NoMatcher, FALSE, <<>>)
RankCapture(c) == Pred("rankCapture", <<>>, 0, "", c, NoMatcher, FALSE, <<>>)
DimShape(dims, k) == Pred("dimShape", dims, 0, k, NoCell, NoMatcher, FALSE, <<>>)
DimIter(dims, k) == Pred("dimIter", dims, 0, k, NoCell, NoMatcher, FALSE, <<>>)
DimAllExcept(dims, k) == Pred("dimAllExcept", dims, 0, k, NoCell, NoMatcher, FALSE, <<>>)
DimDivisible(d, v) == Pred("dimDivisible", <<d>>, v, "", NoCell, NoMatcher, FALSE, <<>>)
DimCapture(d, c) == Pred("dimCapture", <<d>>, 0, "", c, NoMatcher, FALSE, <<>>)
InputMatcher(pos, m, opt) == Pred("input", <<pos>>, 0, "", NoCell, m, opt, <<>>)
OutputMatcher(pos, m, opt) == Pred("output", <<pos>>, 0, "", NoCell, m, opt, <<>>)
ResultMatcher(pos, m, opt) == Pred("result", <<pos>>, 0, "", NoCell, m, opt, <<>>)
AllTilable(ms) == Pred("allTilable", <<>>, 0, "", NoCell, NoMatcher, FALSE, ms)
\* m_StructuredOp<OpType>(): the operation is an OpType
OpName(name) == Pred("opName", <<>>, 0, name, NoCell, NoMatcher, FALSE, <<>>)
InputNum(v) == Pred("inputNum", <<>>, v, "", NoCell, NoMatcher, FALSE, <<>>)
OutputNum(v) == Pred("outputNum", <<>>, v, "", NoCell, NoMatcher, FALSE, <<>>)
\* input / output(AllOperands(), IsPermutation() or IsProjectedPermutation())
InputAll(k) == Pred("inputAll", <<>>, 0, k, NoCell, NoMatcher, FALSE, <<>>)
OutputAll(k) == Pred("outputAll", <<>>, 0, k, NoCell, NoMatcher, FALSE, <<>>)
OutputWidth(pos, v) == Pred("outputWidth", <<pos>>, v, "", NoCell, NoMatcher, FALSE, <<>>)
OutputCombiner(pos) == Pred("outputCombiner", <<pos>>, 0, "", NoCell, NoMatcher, FALSE, <<>>)
\* input / output(position, SubsetOf(m)), result(position, HasAnyUse(),
\* SubsetOf(m), OptionalMatch(opt))
InputSubset(pos, m) == Pred("inputSubset", <<pos>>, 0, "", NoCell, m, FALSE, <<>>)
OutputSubset(pos, m) == Pred("outputSubset", <<pos>>, 0, "", NoCell, m, FALSE, <<>>)
ResultSubset(pos, m, opt) == Pred("resultSubset", <<pos>>, 0, "", NoCell, m, opt, <<>>)

Static == "static"
Dynamic == "dynamic"

(***************************************************************************)
(* The matcher objects.  Each is built once with the builder API; its      *)
(* predicate list never changes afterwards.                                *)
(*   fill   every dimension is parallel                                    *)
(*   lead   capture the rank, rank >= 2, every dimension is parallel       *)
(*   trail  capture the rank, rank <= 1                                    *)
(*   root   the shape of the reduction pattern: mandatory fill of the      *)
(*          init, optional leading and trailing op, all tilable captured   *)
(*   shared runs the exhaustiveness check before its last nested match     *)
(* reduction, reductionFill, leading and trailing are the matchers that    *)
(* makeReductionMatcher builds, writing the cells of its captures.         *)
(***************************************************************************)
Matchers == {"fill", "lead", "trail", "root", "shared",
             "reduction", "reductionFill", "leading", "trailing"}

Cells == {"c1", "cLead", "cTrail", "cRank",
          "reductionRank", "mostMinorParallelDimensionSize",
          "reductionDimensionSize", "maybeLeadingRank", "maybeTrailingRank"}

\* makeReductionMatcher: commonLeadingOrTrailing
commonLeadingOrTrailing ==
  <<OpName(GenericOp), DimAllExcept(<<>>, Par), InputAll(MapProj), OutputAll(MapPerm),
    OutputNum(1)>>

\* makeReductionMatcher: reduction, in the order the predicates are pushed
reductionPredicates ==
  <<RankGE(2), RankLE(4), RankCapture("reductionRank"),
    DimIter(<<-1>>, Red),
    DimCapture(-2, "mostMinorParallelDimensionSize"),
    DimCapture(-1, "reductionDimensionSize"),
    DimAllExcept(<<-1>>, Par),
    InputNum(1), InputAll(MapProj),
    OutputNum(1), OutputAll(MapProj),
    OutputWidth(0, 32), OutputCombiner(0),
    OutputNum(1), OutputMatcher(0, "reductionFill", FALSE),
    InputMatcher(0, "leading", TRUE),
    ResultMatcher(0, "trailing", TRUE),
    AllTilable(<<"reductionFill", "leading", "trailing">>)>>

predicates ==
  [m \in Matchers |->
     CASE m = "fill"   -> <<DimAllExcept(<<>>, Par)>>
       [] m = "lead"   -> <<RankCapture("cLead"), RankGE(2), DimAllExcept(<<>>, Par)>>
       [] m = "trail"  -> <<RankCapture("cTrail"), RankLE(1)>>
       [] m = "root"   -> <<RankGE(2), RankCapture("cRank"), DimIter(<<-1>>, Red),
                            OutputMatcher(0, "fill", FALSE),
                            InputMatcher(0, "lead", TRUE),
                            ResultMatcher(0, "trail", TRUE),
                            AllTilable(<<"fill", "lead", "trail">>)>>
       [] m = "shared" -> <<InputMatcher(0, "lead", TRUE),
                            OutputMatcher(0, "fill", FALSE),
                            AllTilable(<<"lead", "fill">>),
                            OutputMatcher(0, "lead", TRUE)>>
       [] m = "reduction" -> reductionPredicates
       [] m = "reductionFill" -> <<OpName(FillOp)>>
       [] m = "leading" -> Append(commonLeadingOrTrailing, RankCapture("maybeLeadingRank"))
       [] m = "trailing" -> Append(commonLeadingOrTrailing,
                                   RankCapture("maybeTrailingRank"))]

(***************************************************************************)
(* The state of the program.                                               *)
(***************************************************************************)
VARIABLES
  captured,             \* matcher -> the op of its last successful match, or NoOp
  cells,                \* capture cell -> value
  present,              \* the operations currently in the IR
  crashed,              \* the process died on an out-of-bounds access, or spins
                        \* for ever in a traversal (last.hang)
  payloadOperations,    \* MatchCallbackResult: the matched operations
  payloadGroupLengths,  \* MatchCallbackResult: the length of each group
  last,                 \* what the last call was and what it returned
  walk                  \* the subset traversal in progress, if any

vars == <<ir, captured, cells, present, crashed, payloadOperations,
          payloadGroupLengths, last, walk>>

\* no traversal in progress.  pc is where the traversal stands, val the local
\* `val`, op what it returned, iter the number of do-while iterations begun
\* so far modulo 2
NoWalk == [pc |-> "idle", dir |-> "none", start |-> BlockArg(0), val |-> BlockArg(0),
          op |-> NoOp, iter |-> 0]

(***************************************************************************)
(* Evaluation.  st is the mutable state a predicate can touch, with the    *)
(* observations of the running call:                                       *)
(*   ran    the predicates evaluated so far, <<matcher, index, result>>    *)
(*   calls  the calls of match that returned, <<matcher, op, result>>      *)
(*   fresh  the matchers that captured an op during this call              *)
(*   chk    one record per evaluation of the exhaustiveness check          *)
(*   oob    an out-of-bounds access happened                               *)
(*   hang   the call entered a loop that never exits                       *)
(* ub is what an out-of-bounds access produces in this run: a crash, or    *)
(* the garbage size / value that is read.                                  *)
(***************************************************************************)
Ret(r, st) == [res |-> r, st |-> st]
Crash(st) == [res |-> FALSE, st |-> [st EXCEPT !.crashed = TRUE, !.oob = TRUE]]
\* the access at index is outside the container
Oob(st, index) == IF index < 0 THEN [st EXCEPT !.oob = TRUE] ELSE st
\* the call never returns: as after a crash, nothing that follows it runs
Hang(st) == [res |-> FALSE, st |-> [st EXCEPT !.crashed = TRUE, !.hang = TRUE]]

\* position >= 0 ? position : count + position
Normalize(position, count) == IF position >= 0 THEN position ELSE count + position

\* the rank test off by one: rank + 1 >= minRank
rankGreaterEqualOffByOne(p, n, st) == Ret(NumLoops(n) + 1 >= p.v, st)

rankGreaterEqual(p, n, st) == Ret(NumLoops(n) >= p.v, st)

rankLowerEqual(p, n, st) == Ret(NumLoops(n) <= p.v, st)

rankCapture(p, n, st) == Ret(TRUE, [st EXCEPT !.cells[p.cell] = NumLoops(n)])

RECURSIVE dimShapeLoop(_, _, _, _)
dimShapeLoop(dims, i, kind, shape) ==
  IF i > Len(dims) THEN TRUE
  ELSE LET transformedDimension == Normalize(dims[i], Len(shape)) IN
       IF transformedDimension < 0 \/ transformedDimension >= Len(shape) THEN FALSE
       ELSE IF IsDynamic(shape[transformedDimension + 1]) # (kind = Static)
            THEN dimShapeLoop(dims, i + 1, kind, shape)
            ELSE FALSE

dimShapeKind(p, n, st) == Ret(dimShapeLoop(p.dims, 1, p.k, StaticLoopRanges(n)), st)

RECURSIVE dimIterLoop(_, _, _, _)
dimIterLoop(dims, i, kind, n) ==
  IF i > Len(dims) THEN TRUE
  ELSE LET rank == NumLoops(n)
           transformedDimension == Normalize(dims[i], rank) IN
       IF transformedDimension < 0 \/ transformedDimension >= rank THEN FALSE
       ELSE IF IteratorTypesArray(n)[transformedDimension + 1] = kind
            THEN dimIterLoop(dims, i + 1, kind, n)
            ELSE FALSE

dimIteratorType(p, n, st) == Ret(dimIterLoop(p.dims, 1, p.k, n), st)

dimAllDimsExcept(p, n, st) ==
  LET rank == NumLoops(n)
      excludedDims == {Normalize(p.dims[i], rank) : i \in 1..Len(p.dims)}
  IN Ret(\A index \in 0..(rank - 1) :
            index \in excludedDims \/ IteratorTypesArray(n)[index + 1] = p.k, st)

\* getStaticLoopRanges()[transformedDimension] once the only guard,
\* transformedDimension >= rank, has let the index through: a negative index
\* reads outside the vector
LoopRangeAt(n, transformedDimension, ub) ==
  IF transformedDimension < 0 THEN ub.size
  ELSE StaticLoopRanges(n)[transformedDimension + 1]

dimDivisibleBy(p, n, st, ub) ==
  LET rank == NumLoops(n)
      transformedDimension == Normalize(p.dims[1], rank) IN
  IF transformedDimension >= rank THEN Ret(FALSE, st)
  ELSE IF transformedDimension < 0 /\ ub.crash THEN Crash(st)
  ELSE LET size == LoopRangeAt(n, transformedDimension, ub) IN
       Ret(~IsDynamic(size) /\ size % p.v = 0, Oob(st, transformedDimension))

dimCapture(p, n, st, ub) ==
  LET rank == NumLoops(n)
      transformedDimension == Normalize(p.dims[1], rank) IN
  IF transformedDimension >= rank THEN Ret(FALSE, st)
  ELSE IF transformedDimension < 0 /\ ub.crash THEN Crash(st)
  ELSE Ret(TRUE, [Oob(st, transformedDimension) EXCEPT !.cells[p.cell] =
                     LoopRangeAt(n, transformedDimension, ub)])


\* the operand / result at transformedPosition once the only guard,
\* transformedPosition >= count, has let the position through: a negative
\* position reads outside the operand list
\* the predicate pushed by m_StructuredOp<OpType>()
opName(p, n, st) == Ret(ir[n].name = p.k, st)

inputNumEqualsTo(p, n, st) == Ret(NumDpsInputs(n) = p.v, st)

outputNumEqualsTo(p, n, st) == Ret(NumDpsInits(n) = p.v, st)

\* whether a map is of the class the predicate asks for
MapIs(k, map) == IF k = MapPerm THEN IsPermutation(map) ELSE IsProjectedPermutation(map)

inputAllOperands(p, n, st) ==
  Ret(\A i \in 1..NumDpsInputs(n) : MapIs(p.k, InputMaps(n)[i]), st)

outputAllOperands(p, n, st) ==
  Ret(\A i \in 1..NumDpsInits(n) : MapIs(p.k, InitMaps(n)[i]), st)

\* what a boolean computed from an out-of-bounds read comes out as
GarbageBool(ub) == IsDynamic(ub.size)

\* a width test that accepts every integer or float element type
outputElementTypeBitWidthAnyWidth(p, n, st, ub) ==
  LET updatedPosition == Normalize(p.dims[1], NumDpsInits(n)) IN
  IF updatedPosition >= NumDpsInits(n) THEN Ret(FALSE, st)
  ELSE IF updatedPosition < 0 /\ ub.crash THEN Crash(st)
  ELSE IF updatedPosition < 0 THEN Ret(GarbageBool(ub), Oob(st, updatedPosition))
  ELSE Ret(InitBitWidth(n, updatedPosition) # 0, st)

outputElementTypeBitWidth(p, n, st, ub) ==
  LET updatedPosition == Normalize(p.dims[1], NumDpsInits(n)) IN
  IF updatedPosition >= NumDpsInits(n) THEN Ret(FALSE, st)
  ELSE IF updatedPosition < 0 /\ ub.crash THEN Crash(st)
  ELSE IF updatedPosition < 0 THEN Ret(GarbageBool(ub), Oob(st, updatedPosition))
  ELSE Ret(InitBitWidth(n, updatedPosition) = p.v, st)

outputSingleCombinerReduction(p, n, st, ub) ==
  LET updatedPosition == Normalize(p.dims[1], NumDpsInits(n)) IN
  IF updatedPosition >= NumDpsInits(n) THEN Ret(FALSE, st)
  ELSE IF updatedPosition < 0 /\ ub.crash THEN Crash(st)
  ELSE IF updatedPosition < 0 THEN Ret(GarbageBool(ub), Oob(st, updatedPosition))
  ELSE Ret(NumCombiners(n, updatedPosition) = 1, st)

ValueAt(values, transformedPosition, ub) ==
  IF transformedPosition < 0 THEN ub.val ELSE values[transformedPosition + 1]

RECURSIVE numTilableFrom(_, _, _, _)
\* parent->walk([&](TilingInterface Op) { ++numTilableOps; })
numTilableFrom(parent, pres, i, numTilableOps) ==
  IF i > Len(WalkOrder(parent)) THEN numTilableOps
  ELSE LET o == WalkOrder(parent)[i] IN
       numTilableFrom(parent, pres, i + 1,
                      IF o \in pres /\ ir[o].tilable /\ ir[o].parent = parent
                      THEN numTilableOps + 1 ELSE numTilableOps)

RECURSIVE matchedFrom(_, _, _, _)
\* the loop inserting every matcher's captured op, if any, into `matched`
matchedFrom(matchers, cap, i, matched) ==
  IF i > Len(matchers) THEN matched
  ELSE matchedFrom(matchers, cap, i + 1,
                   IF cap[matchers[i]] # NoOp THEN matched \cup {cap[matchers[i]]}
                   ELSE matched)

\* the check without matched.insert(linalgOp)
checkAllTilableMatchedNoRoot(parent, linalgOp, matchers, cap, pres) ==
  IF parent = NoOp THEN FALSE
  ELSE numTilableFrom(parent, pres, 1, 0) = Cardinality(matchedFrom(matchers, cap, 1, {}))

checkAllTilableMatched(parent, linalgOp, matchers, cap, pres) ==
  IF parent = NoOp THEN FALSE
  ELSE LET numTilableOps == numTilableFrom(parent, pres, 1, 0)
           matched == matchedFrom(matchers, cap, 1, {}) \cup {linalgOp}
       IN numTilableOps = Cardinality(matched)

\* the predicate pushed by allTilableOpsCaptured<func::FuncOp>()
checked(p, n, st, r) ==
  Ret(r, [st EXCEPT !.chk = Append(@, [scope |-> ParentOfType(n), root |-> n,
                                       res |-> r, ms |-> p.ms, cap |-> st.cap,
                                       fresh |-> st.fresh])])

allTilableOpsCaptured(p, n, st) ==
  checked(p, n, st, checkAllTilableMatched(ParentOfType(n), n, p.ms, st.cap, st.pres))

RECURSIVE match(_, _, _, _)
RECURSIVE allOf(_, _, _, _, _)
RECURSIVE anyOf(_, _, _, _, _)
RECURSIVE anyOfNext(_, _, _, _, _)
RECURSIVE allOfNext(_, _, _, _, _)
RECURSIVE evalPredicate(_, _, _, _)

\* the tail shared by addInputMatcher and addOutputMatcher, from the operand
\* if (matcher(...)) return true; return optional.value;
orOptional(p, r) ==
  IF r.st.crashed THEN r
  ELSE IF r.res THEN Ret(TRUE, r.st) ELSE Ret(p.opt, r.st)

\* an optional predicate that returns before trying the nested matcher
nestedOnProducerSkipOptional(p, value, st, ub) ==
  IF DefiningOp(value) = NoOp \/ p.opt THEN Ret(p.opt, st)
  ELSE orOptional(p, match(p.nested, DefiningOp(value), st, ub))

nestedOnProducer(p, value, st, ub) ==
  IF DefiningOp(value) = NoOp THEN Ret(p.opt, st)
  ELSE orOptional(p, match(p.nested, DefiningOp(value), st, ub))

addInputMatcher(p, n, st, ub) ==
  LET transformedPosition == Normalize(p.dims[1], NumDpsInputs(n)) IN
  IF transformedPosition >= NumDpsInputs(n) THEN Ret(FALSE, st)
  ELSE IF transformedPosition < 0 /\ ub.crash THEN Crash(st)
  ELSE nestedOnProducer(p, ValueAt(ir[n].inputs, transformedPosition, ub),
                        Oob(st, transformedPosition), ub)

addOutputMatcher(p, n, st, ub) ==
  LET transformedPosition == Normalize(p.dims[1], NumDpsInits(n)) IN
  IF transformedPosition >= NumDpsInits(n) THEN Ret(FALSE, st)
  ELSE IF transformedPosition < 0 /\ ub.crash THEN Crash(st)
  ELSE nestedOnProducer(p, ValueAt(ir[n].inits, transformedPosition, ub),
                        Oob(st, transformedPosition), ub)

\* all_of in the place of any_of: stops at the first user that does not match
anyOfNextAllOf(users, i, m, r, ub) ==
  IF r.st.crashed \/ ~r.res \/ i >= Len(users) THEN r
  ELSE anyOf(users, i + 1, m, r.st, ub)

\* llvm::any_of(users, matcher): stops at the first user that matches
anyOfNext(users, i, m, r, ub) ==
  IF r.st.crashed \/ r.res THEN r
  ELSE anyOf(users, i + 1, m, r.st, ub)

anyOf(users, i, m, st, ub) ==
  IF i > Len(users) THEN Ret(FALSE, st)
  ELSE anyOfNext(users, i, m, match(m, users[i], st, ub), ub)

addResultMatcher(p, n, st, ub) ==
  LET transformedPosition == Normalize(p.dims[1], NumResults(n)) IN
  IF transformedPosition >= NumResults(n) THEN Ret(FALSE, st)
  ELSE IF transformedPosition < 0 /\ ub.crash THEN Crash(st)
  ELSE LET value == IF transformedPosition < 0 THEN ub.val
                    ELSE Res(n, transformedPosition)
       IN orOptional(p, anyOf(Users(value, st.pres), 1, p.nested,
                              Oob(st, transformedPosition), ub))

\* matcher.match(op) on what a traversal returned: a function, like any op
\* that is not a linalg op, fails the dyn_cast
matchOn(m, op, st, ub) ==
  IF op \in Functions THEN Ret(FALSE, [st EXCEPT !.calls = Append(@, <<m, op, FALSE>>)])
  ELSE match(m, op, st, ub)

\* input(position, SubsetOf)
inputSubsetOf(p, n, st, ub) ==
  LET transformedPosition == Normalize(p.dims[1], NumDpsInputs(n)) IN
  IF transformedPosition >= NumDpsInputs(n) THEN Ret(FALSE, st)
  ELSE IF transformedPosition < 0 /\ ub.crash THEN Crash(st)
  ELSE matchOn(p.nested,
               traverseSubsetsBackwards(ValueAt(ir[n].inputs, transformedPosition, ub)),
               Oob(st, transformedPosition), ub)

\* output(position, SubsetOf): the position is normalized and tested with
\* getNumDpsInputs(), then getDpsInitOperand(transformedPosition) is read; a
\* position outside the inits reads outside the operand list
outputSubsetOf(p, n, st, ub) ==
  LET transformedPosition == Normalize(p.dims[1], NumDpsInputs(n))
      outside == transformedPosition < 0 \/ transformedPosition >= NumDpsInits(n) IN
  IF transformedPosition >= NumDpsInputs(n) THEN Ret(FALSE, st)
  ELSE IF outside /\ ub.crash THEN Crash(st)
  ELSE matchOn(p.nested,
               traverseSubsetsBackwards(IF outside THEN ub.val
                                        ELSE ir[n].inits[transformedPosition + 1]),
               [st EXCEPT !.oob = @ \/ outside], ub)

\* the tail of result(position, HasAnyUse, SubsetOf, OptionalMatch) once the
\* traversal is over, if it ever is
resultSubsetOn(p, user, st, ub) ==
  IF user = Diverges THEN Hang(st)
  ELSE orOptional(p, matchOn(p.nested, user, st, ub))

\* result(position, HasAnyUse, SubsetOf, OptionalMatch)
resultSubsetOf(p, n, st, ub) ==
  LET transformedPosition == Normalize(p.dims[1], NumResults(n)) IN
  IF transformedPosition >= NumResults(n) THEN Ret(FALSE, st)
  ELSE IF transformedPosition < 0 /\ ub.crash THEN Crash(st)
  ELSE resultSubsetOn(p,
                      traverseSubsetsForwardAnyUse(
                        IF transformedPosition < 0 THEN ub.val
                        ELSE Res(n, transformedPosition), st.pres),
                      Oob(st, transformedPosition), ub)

\* fn(linalgOp) for one predicate closure
evalPredicate(p, n, st, ub) ==
  CASE p.kind = "rankGE"       -> rankGreaterEqual(p, n, st)
    [] p.kind = "rankLE"       -> rankLowerEqual(p, n, st)
    [] p.kind = "rankCapture"  -> rankCapture(p, n, st)
    [] p.kind = "dimShape"     -> dimShapeKind(p, n, st)
    [] p.kind = "dimIter"      -> dimIteratorType(p, n, st)
    [] p.kind = "dimAllExcept" -> dimAllDimsExcept(p, n, st)
    [] p.kind = "dimDivisible" -> dimDivisibleBy(p, n, st, ub)
    [] p.kind = "dimCapture"   -> dimCapture(p, n, st, ub)
    [] p.kind = "input"        -> addInputMatcher(p, n, st, ub)
    [] p.kind = "output"       -> addOutputMatcher(p, n, st, ub)
    [] p.kind = "result"       -> addResultMatcher(p, n, st, ub)
    [] p.kind = "allTilable"   -> allTilableOpsCaptured(p, n, st)
    [] p.kind = "opName"       -> opName(p, n, st)
    [] p.kind = "inputNum"     -> inputNumEqualsTo(p, n, st)
    [] p.kind = "outputNum"    -> outputNumEqualsTo(p, n, st)
    [] p.kind = "inputAll"     -> inputAllOperands(p, n, st)
    [] p.kind = "outputAll"    -> outputAllOperands(p, n, st)
    [] p.kind = "outputWidth"  -> outputElementTypeBitWidth(p, n, st, ub)
    [] p.kind = "outputCombiner" -> outputSingleCombinerReduction(p, n, st, ub)
    [] p.kind = "inputSubset"  -> inputSubsetOf(p, n, st, ub)
    [] p.kind = "outputSubset" -> outputSubsetOf(p, n, st, ub)
    [] p.kind = "resultSubset" -> resultSubsetOf(p, n, st, ub)

\* all_of without the early exit: a false predicate does not stop the loop
allOfNextNoExit(m, i, n, r, ub) ==
  IF r.st.crashed THEN r
  ELSE allOf(m, i + 1, n, [r.st EXCEPT !.ran = Append(@, <<m, i, r.res>>)], ub)

\* llvm::all_of(predicates, fn): in order, stops at the first false
allOfNext(m, i, n, r, ub) ==
  IF r.st.crashed THEN r
  ELSE IF r.res THEN allOf(m, i + 1, n, [r.st EXCEPT !.ran = Append(@, <<m, i, TRUE>>)], ub)
  ELSE Ret(FALSE, [r.st EXCEPT !.ran = Append(@, <<m, i, FALSE>>)])

allOf(m, i, n, st, ub) ==
  IF i > Len(predicates[m]) THEN Ret(TRUE, st)
  ELSE allOfNext(m, i, n, evalPredicate(predicates[m][i], n, st, ub), ub)

\* captured = linalgOp; return true;   (only when all_of returned true)
matched(m, op, r) ==
  IF r.st.crashed THEN Ret(FALSE, r.st)
  ELSE IF ~r.res THEN Ret(FALSE, [r.st EXCEPT !.calls = Append(@, <<m, op, FALSE>>)])
  ELSE Ret(TRUE, [r.st EXCEPT !.cap[m] = op, !.fresh = @ \cup {m},
                              !.calls = Append(@, <<m, op, TRUE>>)])

\* StructuredOpMatcher::match(Operation *op)
match(m, op, st, ub) ==
  IF ~IsLinalg(op) THEN Ret(FALSE, [st EXCEPT !.calls = Append(@, <<m, op, FALSE>>)])
  ELSE matched(m, op, allOf(m, 1, op, st, ub))


\* match on a matcher holding the single predicate p; its captured slot dies
\* with it
matchSingle(p, op, st, ub) ==
  IF ~IsLinalg(op) THEN Ret(FALSE, st) ELSE evalPredicate(p, op, st, ub)

(***************************************************************************)
(* MatchCallbackResult.                                                    *)
(***************************************************************************)
RECURSIVE groupStart(_, _, _, _)
\* the summing loop stopping one index early (i + 1 < position)
groupStartOffByOne(lengths, position, i, start) ==
  IF i + 1 < position
  THEN groupStart(lengths, position, i + 1, start + lengths[i + 1])
  ELSE start

\* for (unsigned i = 0; i < position; ++i) start += payloadGroupLengths[i];
groupStart(lengths, position, i, start) ==
  IF i < position THEN groupStart(lengths, position, i + 1, start + lengths[i + 1])
  ELSE start

\* what the caller gets when the assert fires: no group at all
AssertionFailure == <<-1>>

\* the assert makes a position at or beyond the group count fail fast;
\* ArrayRef::slice(start, n) is the n elements from index start on
getPayloadGroup(operations, lengths, position) ==
  IF ~(position < Len(lengths)) THEN AssertionFailure
  ELSE LET start == groupStart(lengths, position, 0, 0) IN
       SubSeq(operations, start + 1, start + lengths[position + 1])

(***************************************************************************)
(* Calls.                                                                  *)
(***************************************************************************)
NoPred == Pred("none", <<>>, 0, "", NoCell, NoMatcher, FALSE, <<>>)

NoPre == [cap |-> [m \in Matchers |-> NoOp], cells |-> [c \in Cells |-> 0]]

NoCall ==
  [op |-> "none", m |-> NoMatcher, p |-> NoPred, n |-> NoOp, scope |-> NoOp,
   pos |-> 0, res |-> FALSE, group |-> <<>>, pre |-> NoPre, ran |-> <<>>,
   calls |-> <<>>, chk |-> <<>>, oob |-> FALSE, again |-> FALSE, prevRes |-> FALSE,
   root |-> NoOp, hang |-> FALSE]

\* what an out-of-bounds read can yield
GarbageSizes == {kDynamic, 6, 7}
GarbageValues == {BlockArg(0), Res("lead1", 0)}

UBCrash == [crash |-> TRUE, size |-> 0, val |-> BlockArg(0)]

UBChoices == {UBCrash} \cup [crash : {FALSE}, size : GarbageSizes, val : GarbageValues]

\* the outcomes of a call: one when every access is in bounds, else one per
\* thing an out-of-bounds access can produce
Outcomes(r) == IF r.st.oob THEN UBChoices ELSE {UBCrash}

Start == [cap |-> captured, cells |-> cells, pres |-> present, crashed |-> FALSE,
          ran |-> <<>>, calls |-> <<>>, fresh |-> {}, chk |-> <<>>, oob |-> FALSE,
          hang |-> FALSE]

Pre == [cap |-> captured, cells |-> cells]

\* the matchers the driver calls match on
Roots == {"root", "shared"}

Init ==
  /\ ir = Graph
  /\ captured = [m \in Matchers |-> NoOp]
  /\ cells = [c \in Cells |-> 0]
  /\ present = BaseOps \ Insertable
  /\ crashed = FALSE
  /\ payloadOperations = <<>>
  /\ payloadGroupLengths = <<>>
  /\ last = NoCall
  /\ walk = NoWalk

\* matcher.match(op), called by the driver
Match(m, n) ==
  /\ ~crashed
  /\ n \in present
  /\ \E ub \in Outcomes(match(m, n, Start, UBCrash)) :
     \E r \in {match(m, n, Start, ub)} :
       /\ captured' = r.st.cap
       /\ cells' = r.st.cells
       /\ crashed' = r.st.crashed
       /\ last' = [NoCall EXCEPT !.op = "match", !.m = m, !.n = n, !.res = r.res,
                                 !.pre = Pre, !.ran = r.st.ran, !.chk = r.st.chk,
                                 !.calls = r.st.calls, !.oob = r.st.oob,
                                 !.hang = r.st.hang,
                                 !.again = (last.op = "match" /\ last.m = m
                                            /\ last.n = n),
                                 !.prevRes = last.res]
  /\ UNCHANGED <<ir, present, payloadOperations, payloadGroupLengths, walk>>

\* m_StructuredOp().<predicate p>.match(op): a matcher built for this call
\* with the single predicate p
MatchSingle(p, n) ==
  /\ ~crashed
  /\ n \in present
  /\ \E ub \in Outcomes(matchSingle(p, n, Start, UBCrash)) :
     \E r \in {matchSingle(p, n, Start, ub)} :
       /\ captured' = r.st.cap
       /\ cells' = r.st.cells
       /\ crashed' = r.st.crashed
       /\ last' = [NoCall EXCEPT !.op = "single", !.p = p, !.n = n, !.res = r.res,
                                 !.pre = Pre, !.ran = r.st.ran, !.chk = r.st.chk,
                                 !.calls = r.st.calls, !.oob = r.st.oob,
                                 !.hang = r.st.hang]
  /\ UNCHANGED <<ir, present, payloadOperations, payloadGroupLengths, walk>>

\* the rewrite driver creates one more tilable op; when it does so right
\* after a call of checkAllTilableMatched, `last` keeps what that call was
InsertOp(x) ==
  /\ ~crashed
  /\ x \in Insertable \ present
  /\ present' = present \cup {x}
  /\ last' = IF last.op = "check"
             THEN [NoCall EXCEPT !.op = "insert", !.n = x, !.scope = last.scope,
                                 !.root = last.root, !.p = last.p,
                                 !.prevRes = last.res]
             ELSE [NoCall EXCEPT !.op = "insert", !.n = x]
  /\ UNCHANGED <<ir, captured, cells, crashed, payloadOperations, payloadGroupLengths,
                 walk>>

\* the lists of matchers handed to checkAllTilableMatched
CheckLists == {<<>>, <<"fill", "lead", "trail">>, <<"lead", "fill", "lead">>}

\* a direct call of the static checkAllTilableMatched; last.again tells that
\* the same call returned true right before one more tilable op was created
\* under the scope
CheckCall(scope, root, ms) ==
  /\ ~crashed
  /\ root \in present
  /\ IsLinalg(root)
  /\ last' = [NoCall EXCEPT !.op = "check", !.scope = scope, !.n = root,
                            !.root = root, !.p = AllTilable(ms), !.pre = Pre,
                            !.again = (/\ last.op = "insert" /\ last.prevRes
                                       /\ last.scope = scope /\ last.root = root
                                       /\ last.p = AllTilable(ms)
                                       /\ ir[last.n].tilable
                                       /\ ir[last.n].parent = scope),
                            !.res = checkAllTilableMatched(scope, root, ms,
                                                           captured, present)]
  /\ UNCHANGED <<ir, captured, cells, present, crashed, payloadOperations,
                 payloadGroupLengths, walk>>

Next ==
  \/ \E m \in Roots, n \in Ops : Match(m, n)
  \/ \E x \in Insertable : InsertOp(x)
  \/ \E scope \in Scopes \cup {NoOp}, root \in {"red1", "red2"}, ms \in CheckLists :
       CheckCall(scope, root, ms)

Spec == Init /\ [][Next]_vars


(***************************************************************************)
(* The predicates on their own: one call of a matcher holding a single     *)
(* predicate.  The dimension predicates are tried with every index in      *)
(* -MaxIdx..MaxIdx, the operand / result predicates with every position in *)
(* RelPositions over the nested matchers lead and trail.  The call starts  *)
(* either from freshly built matchers and zeroed cells, or from the state  *)
(* that earlier successful matches have left.                              *)
(***************************************************************************)
DimIdx == (0 - MaxIdx)..MaxIdx

DimLists == {<<i>> : i \in DimIdx} \cup {<<i, j>> : i \in DimIdx, j \in {-1, 0}}

DimPredicates ==
  {DimShape(d, k) : d \in DimLists, k \in {Static, Dynamic}}
  \cup {DimIter(d, k) : d \in DimLists, k \in {Par, Red}}
  \cup {DimDivisible(i, v) : i \in DimIdx, v \in {2, 3}}
  \cup {DimCapture(i, "c1") : i \in DimIdx}

RelPositions == {-2, -1, 0, 1}

RelPredicates ==
  {InputMatcher(pos, m, opt) : pos \in RelPositions, m \in {"lead", "trail"},
                               opt \in BOOLEAN}
  \cup {OutputMatcher(pos, m, opt) : pos \in RelPositions, m \in {"lead", "trail"},
                                     opt \in BOOLEAN}
  \cup {ResultMatcher(pos, m, opt) : pos \in RelPositions, m \in {"lead", "trail"},
                                     opt \in BOOLEAN}

ProbeOps == {"fill1", "lead1", "red1", "trail1", "red2", "ret1"}

Fresh == [cap |-> [m \in Matchers |-> NoOp], cells |-> [c \in Cells |-> 0],
          pres |-> BaseOps \ Insertable, crashed |-> FALSE, ran |-> <<>>,
          calls |-> <<>>, fresh |-> {}, chk |-> <<>>, oob |-> FALSE, hang |-> FALSE]

\* the state after dim(-1, capture c1) has matched red1, lead has matched
\* lead1 and trail has matched trail1
Settled ==
  match("trail", "trail1",
        match("lead", "lead1",
              matchSingle(DimCapture(-1, "c1"), "red1", Fresh, UBCrash).st,
              UBCrash).st,
        UBCrash).st

InitPred ==
  /\ ir = Graph
  /\ \E pre \in {Fresh, Settled} : captured = pre.cap /\ cells = pre.cells
  /\ present = BaseOps \ Insertable
  /\ crashed = FALSE
  /\ payloadOperations = <<>>
  /\ payloadGroupLengths = <<>>
  /\ \E p \in DimPredicates \cup RelPredicates, n \in ProbeOps :
       last = [NoCall EXCEPT !.op = "pending", !.p = p, !.n = n]
  /\ walk = NoWalk

NextPred == last.op = "pending" /\ MatchSingle(last.p, last.n)

SpecPred == InitPred /\ [][NextPred]_vars

(***************************************************************************)
(* The operand / result predicates on the ops of f3, where operands come   *)
(* through slices and loops and where the numbers of inputs and of inits   *)
(* differ: one call of a matcher holding a single predicate, with every    *)
(* position in SubPositions.                                               *)
(***************************************************************************)
\* the IR the traversals walk: the functions f1, f2 and f3
WalkOps == (BaseOps \ Insertable) \cup SubOps

SubPositions == (0 - MaxPos)..MaxPos

SubPredicates ==
  UNION {{InputMatcher(pos, m, opt), OutputMatcher(pos, m, opt),
          ResultMatcher(pos, m, opt), ResultSubset(pos, m, opt)} :
         pos \in SubPositions, m \in {"lead", "trail"}, opt \in BOOLEAN}
  \cup UNION {{InputSubset(pos, m), OutputSubset(pos, m)} :
              pos \in SubPositions, m \in {"lead", "trail"}}
  \cup UNION {{OutputWidth(pos, 32), OutputCombiner(pos)} : pos \in SubPositions}

SubProbeOps == {"src3", "cons3", "useA", "outA", "bodyA", "bodyC", "dead3", "srcD",
                "wide3", "loop3"}

InitSub ==
  /\ ir = Graph
  /\ captured = [m \in Matchers |-> NoOp]
  /\ cells = [c \in Cells |-> 0]
  /\ present = WalkOps
  /\ crashed = FALSE
  /\ payloadOperations = <<>>
  /\ payloadGroupLengths = <<>>
  /\ \E p \in SubPredicates, n \in SubProbeOps :
       last = [NoCall EXCEPT !.op = "pending", !.p = p, !.n = n]
  /\ walk = NoWalk

SpecSub == InitSub /\ [][NextPred]_vars

(***************************************************************************)
(* The matchers of makeReductionMatcher.  Function g holds the fill, one   *)
(* reduction and the return; the driver calls reduction.match on the ops   *)
(* of g and replaces the reduction by another one between calls.           *)
(***************************************************************************)
InitRed ==
  /\ ir = Graph
  /\ captured = [m \in Matchers |-> NoOp]
  /\ cells = [c \in Cells |-> 0]
  /\ present = {"fillR", "r2", "retR"}
  /\ crashed = FALSE
  /\ payloadOperations = <<>>
  /\ payloadGroupLengths = <<>>
  /\ last = NoCall
  /\ walk = NoWalk

\* the rewrite driver replaces the reduction of g by the reduction x
SwapRoot(x) ==
  /\ ~crashed
  /\ x \in RootOps \ present
  /\ present' = (present \ RootOps) \cup {x}
  /\ last' = [NoCall EXCEPT !.op = "swap", !.n = x]
  /\ UNCHANGED <<ir, captured, cells, crashed, payloadOperations, payloadGroupLengths,
                 walk>>

NextRed ==
  \/ \E n \in RootOps \cup {"fillR"} : Match("reduction", n)
  \/ \E x \in RootOps : SwapRoot(x)

SpecRed == InitRed /\ [][NextRed]_vars

(***************************************************************************)
(* MatchCallbackResult on its own: the container holds up to MaxGroups     *)
(* groups of up to MaxGroupLen operations each (the operation at index k   *)
(* is named k), and the caller asks for a group.                           *)
(***************************************************************************)
RECURSIVE SumSeq(_)
SumSeq(q) == IF q = <<>> THEN 0 ELSE Head(q) + SumSeq(Tail(q))

LengthLists == UNION {[1..k -> 0..MaxGroupLen] : k \in 0..MaxGroups}

InitGroup ==
  /\ ir = Graph
  /\ captured = [m \in Matchers |-> NoOp]
  /\ cells = [c \in Cells |-> 0]
  /\ present = BaseOps \ Insertable
  /\ crashed = FALSE
  /\ payloadGroupLengths \in LengthLists
  /\ payloadOperations = [k \in 1..SumSeq(payloadGroupLengths) |-> k - 1]
  /\ last = NoCall
  /\ walk = NoWalk

GetPayloadGroup(position) ==
  /\ last' = [NoCall EXCEPT !.op = "group", !.pos = position,
                            !.group = getPayloadGroup(payloadOperations,
                                                      payloadGroupLengths, position)]
  /\ UNCHANGED <<ir, captured, cells, present, crashed, payloadOperations,
                 payloadGroupLengths, walk>>

NextGroup == \E position \in 0..(MaxGroups + 1) : GetPayloadGroup(position)

SpecGroup == InitGroup /\ [][NextGroup]_vars

(***************************************************************************)
(* The subset traversals step by step: a call of traverseSubsetsBackwards  *)
(* or traverseSubsetsForwardAnyUse on a value of the IR, one do-while      *)
(* iteration per step.  The IR is the functions f1, f2 and f3.             *)
(***************************************************************************)
\* the values a traversal is started from: every result and block argument
WalkValues ==
  {v \in {Res(o, i) : o \in WalkOps, i \in {0, 1}} : v.idx < NumResults(v.op)}
  \cup {BlockArg(b) : b \in (0..10) \cup (30..46)}

InitWalk ==
  /\ ir = Graph
  /\ captured = [m \in Matchers |-> NoOp]
  /\ cells = [c \in Cells |-> 0]
  /\ present = WalkOps
  /\ crashed = FALSE
  /\ payloadOperations = <<>>
  /\ payloadGroupLengths = <<>>
  /\ last = NoCall
  /\ walk = NoWalk

\* a predicate calls the traversal of direction dir on val; the previous
\* traversal, if any, has returned
Traverse(dir, val) ==
  /\ walk.pc \in {"idle", "returned"}
  /\ walk' = [NoWalk EXCEPT !.pc = "running", !.dir = dir, !.start = val, !.val = val]
  /\ UNCHANGED <<ir, captured, cells, present, crashed, payloadOperations,
                 payloadGroupLengths, last>>

\* what one iteration leaves: the traversal has returned it.op, or goes on
\* with the next iteration from it.val
afterIteration(it) ==
  IF it.done THEN [walk EXCEPT !.pc = "returned", !.op = it.op]
  ELSE [walk EXCEPT !.val = it.val, !.iter = 1 - @]

\* one iteration of do { ... } while (true) in traverseSubsetsBackwards
BackwardIteration ==
  /\ walk.pc = "running"
  /\ walk.dir = "backward"
  /\ walk' = afterIteration(backwardIteration(walk.val))
  /\ UNCHANGED <<ir, captured, cells, present, crashed, payloadOperations,
                 payloadGroupLengths, last>>

\* one iteration of do { ... } while (true) in traverseSubsetsForwardAnyUse
ForwardIteration ==
  /\ walk.pc = "running"
  /\ walk.dir = "forward"
  /\ walk' = afterIteration(forwardIteration(walk.val, present))
  /\ UNCHANGED <<ir, captured, cells, present, crashed, payloadOperations,
                 payloadGroupLengths, last>>

NextWalk ==
  \/ \E dir \in {"backward", "forward"}, val \in WalkValues : Traverse(dir, val)
  \/ BackwardIteration
  \/ ForwardIteration

SpecWalk == InitWalk /\ [][NextWalk]_vars

\* the thread that called a traversal keeps running it: nothing blocks or
\* preempts the loop for ever
FairWalk == SpecWalk /\ WF_vars(BackwardIteration) /\ WF_vars(ForwardIteration)


(***************************************************************************)
(* Properties.                                                             *)
(***************************************************************************)
Range(q) == {q[i] : i \in 1..Len(q)}

IsTop(e) == e[1] = last.m

\* the predicates of the matcher itself that the last match call evaluated
TopRan == SelectSeq(last.ran, IsTop)

\* the matchers whose match was called, at any depth, during the last call
Called == {e[1] : e \in Range(last.calls)}

\* C1: match evaluates the predicates in registration order and stops at the
\* first one that returns false.  The predicates run are numbers 1..k of the
\* list, all true but possibly the last, and match returns true exactly when
\* all of the list ran and returned true.  A rank capture that ran has
\* written its cell, also when a later predicate fails and match returns
\* false; a rank capture after the failing predicate has not run, and its cell
\* keeps the prior value; a nested matcher that is only named by predicates
\* after the failing one keeps its captured op.
C1_ShortCircuit ==
  (last.op = "match" /\ IsLinalg(last.n)) =>
    LET preds == predicates[last.m]
        k == Len(TopRan)
    IN /\ k <= Len(preds)
       /\ \A j \in 1..k : TopRan[j][2] = j
       /\ \A j \in 1..(k - 1) : TopRan[j][3] = TRUE
       /\ last.res = (k = Len(preds) /\ (k = 0 \/ TopRan[k][3] = TRUE))
       /\ \A j \in 1..Len(preds) :
            /\ (preds[j].kind = "rankCapture" /\ j <= k)
                 => cells[preds[j].cell] = NumLoops(last.n)
            /\ (preds[j].kind = "rankCapture" /\ j > k)
                 => cells[preds[j].cell] = last.pre.cells[preds[j].cell]
            /\ (preds[j].nested # NoMatcher /\ j > k
                /\ \A i \in 1..k : preds[i].nested # preds[j].nested)
                 => captured[preds[j].nested] = last.pre.cap[preds[j].nested]

\* C1 witness: the rank capture of root ran and wrote a new value, the next
\* predicate failed, match returned false and the write is still there
C1_Witness ==
  /\ last.op = "match" /\ last.m = "root" /\ ~last.res
  /\ Len(TopRan) = 3
  /\ cells["cRank"] = NumLoops(last.n)
  /\ cells["cRank"] # last.pre.cells["cRank"]

\* C2: match(n) records n in the captured slot exactly when every predicate
\* returned true, and after a call that returned false the slot does not
\* hold an op recorded by an earlier successful call.
C2_NoStaleCapture ==
  (last.op = "match") =>
    /\ last.res => captured[last.m] = last.n
    /\ ~last.res => captured[last.m] = NoOp


\* the last call was a single-predicate match of a predicate of kind `kinds`
\* on a structured op
Probed(kinds) == last.op = "single" /\ last.p.kind \in kinds /\ IsLinalg(last.n)

\* i >= 0 ? i : r + i
Norm(i, r) == IF i >= 0 THEN i ELSE r + i

InRange(i, r) == Norm(i, r) >= 0 /\ Norm(i, r) < r

\* what a dimension predicate is to answer for index i of the op n
DimHolds(p, i, n) ==
  /\ InRange(i, NumLoops(n))
  /\ LET size == ir[n].shape[Norm(i, NumLoops(n)) + 1]
         iter == ir[n].iters[Norm(i, NumLoops(n)) + 1]
     IN CASE p.kind = "dimShape"     -> (size # kDynamic) = (p.k = Static)
          [] p.kind = "dimIter"      -> iter = p.k
          [] p.kind = "dimDivisible" -> size # kDynamic /\ size % p.v = 0

\* C3: every dimension-indexed predicate (shape, iteration kind, divisibility)
\* normalizes the index as i >= 0 ? i : r + i, returns false whenever a
\* normalized index is outside [0, r) and reads no dimension outside [0, r):
\* it returns true exactly when every index names a dimension of the op that
\* has the asked property, so -k answers as r - k does.
C3_DimIndexNormalized ==
  Probed({"dimShape", "dimIter", "dimDivisible"}) =>
    /\ ~crashed
    /\ ~last.oob
    /\ last.res = \A j \in 1..Len(last.p.dims) : DimHolds(last.p, last.p.dims[j], last.n)

\* C3 without the divisibility predicate: what holds of the two list forms
C3_ListFormsNormalized ==
  Probed({"dimShape", "dimIter"}) =>
    /\ ~crashed
    /\ ~last.oob
    /\ last.res = \A j \in 1..Len(last.p.dims) : DimHolds(last.p, last.p.dims[j], last.n)

\* C4: dim(i, capture) writes the size of the normalized dimension into the
\* cell and returns true when the normalized index is in [0, rank); for every
\* other index it returns false and leaves the cell at its prior value.
C4_DimCapture ==
  Probed({"dimCapture"}) =>
    LET i == last.p.dims[1]
        r == NumLoops(last.n)
    IN /\ ~crashed
       /\ InRange(i, r) => /\ last.res
                           /\ cells = [last.pre.cells EXCEPT
                                         ![last.p.cell] = ir[last.n].shape[Norm(i, r) + 1]]
       /\ ~InRange(i, r) => /\ ~last.res
                            /\ cells = last.pre.cells

\* what the nested matchers lead and trail are to answer on op o
NestedHolds(m, o) ==
  /\ IsLinalg(o)
  /\ CASE m = "lead"  -> NumLoops(o) >= 2 /\ \A i \in 1..NumLoops(o) : ir[o].iters[i] = Par
       [] m = "trail" -> NumLoops(o) <= 1

\* the cell the nested matchers lead and trail write first thing
RankCellOf(m) == IF m = "lead" THEN "cLead" ELSE "cTrail"

\* C5: an input / output operand predicate at an in-range position returns
\* the optional flag when the operand has no producer, without calling the
\* nested matcher; when it has a producer the nested matcher is called on it
\* exactly once (optional or not), the predicate returns nestedMatch \/
\* optional, the nested matcher's slot holds the producer exactly when it
\* matched, and the rank the nested matcher captured before it failed is
\* still in its cell.
C5_OptionalOperand ==
  Probed({"input", "output"}) =>
    LET values == IF last.p.kind = "input" THEN ir[last.n].inputs
                  ELSE ir[last.n].inits
        pos == last.p.dims[1]
        m == last.p.nested
    IN InRange(pos, Len(values)) =>
         LET producer == values[Norm(pos, Len(values)) + 1].op IN
         /\ ~crashed
         /\ producer = NoOp =>
              /\ last.res = last.p.opt
              /\ last.calls = <<>>
              /\ captured = last.pre.cap /\ cells = last.pre.cells
         /\ producer # NoOp =>
              /\ last.calls = <<<<m, producer, NestedHolds(m, producer)>>>>
              /\ last.res = (NestedHolds(m, producer) \/ last.p.opt)
              /\ captured = IF NestedHolds(m, producer)
                            THEN [last.pre.cap EXCEPT ![m] = producer]
                            ELSE last.pre.cap
              /\ IsLinalg(producer) =>
                   cells = [last.pre.cells EXCEPT ![RankCellOf(m)] = NumLoops(producer)]

\* C5 witness: an optional input predicate whose producer exists and fails the
\* nested matcher: the predicate returned true and the rank the nested
\* matcher captured before failing is in the cell
C5_Witness ==
  /\ Probed({"input"}) /\ last.p.opt /\ last.res
  /\ last.calls # <<>> /\ last.calls[1][3] = FALSE
  /\ cells["cLead"] # last.pre.cells["cLead"]
  /\ captured["lead"] = last.pre.cap["lead"]

RECURSIVE FirstHit(_, _, _)
\* the index of the first user that satisfies m, or the number of users
FirstHit(users, m, i) ==
  IF i >= Len(users) THEN Len(users)
  ELSE IF NestedHolds(m, users[i]) THEN i
  ELSE FirstHit(users, m, i + 1)

\* C6: the result-use predicate at an in-range result position returns true
\* iff some use of that result satisfies the nested matcher or the predicate
\* is optional; the nested matcher is tried on the users in use-list order up
\* to the first that matches; when one matched, the nested matcher's slot
\* holds that user of the result; and the rank captured by the last attempt
\* stays in the cell whatever the predicate returned.
C6_ResultUse ==
  Probed({"result"}) =>
    LET pos == last.p.dims[1]
        m == last.p.nested
    IN InRange(pos, NumResults(last.n)) =>
         LET users == Users(Res(last.n, Norm(pos, NumResults(last.n))), present)
             hit == \E i \in 1..Len(users) : NestedHolds(m, users[i])
             k == FirstHit(users, m, 1)
         IN /\ ~crashed
            /\ last.res = (hit \/ last.p.opt)
            /\ last.calls = [i \in 1..k |-> <<m, users[i], NestedHolds(m, users[i])>>]
            /\ hit => captured[m] \in Range(users) /\ captured[m] = users[k]
            /\ ~hit => captured = last.pre.cap
            /\ \A i \in 1..k :
                 (IsLinalg(users[i]) /\ \A j \in (i + 1)..k : ~IsLinalg(users[j]))
                   => cells[RankCellOf(m)] = NumLoops(users[i])

\* C6 witness: a non-optional result predicate whose first user fails the
\* nested matcher and whose second user matches
C6_Witness ==
  /\ Probed({"result"}) /\ ~last.p.opt /\ last.res
  /\ Len(last.calls) = 2
  /\ captured[last.p.nested] = last.calls[2][2]
  /\ captured[last.p.nested] # last.pre.cap[last.p.nested]


\* the tilable ops that exist under a scope
TilableUnder(scope) == {o \in present : ir[o].tilable /\ ir[o].parent = scope}

\* C7: checkAllTilableMatched(scope, root, matchers) returns true iff the
\* scope is non-null and the number of tilable ops under it equals the number
\* of distinct ops in {root} union the captured ops of the matchers that have
\* one; a null scope returns false; and the same call made again right after
\* one more (uncaptured) tilable op was created under the scope, from a state
\* where it returned true, returns false.
C7_Exhaustiveness ==
  (last.op = "check") =>
    LET ms == last.p.ms
        matchedOps == {last.n} \cup ({captured[ms[i]] : i \in 1..Len(ms)} \ {NoOp})
    IN /\ last.res = (/\ last.scope # NoOp
                      /\ Cardinality(TilableUnder(last.scope)) = Cardinality(matchedOps))
       /\ last.scope = NoOp => ~last.res
       /\ last.again => ~last.res

\* C7 witness: the check returned true, a tilable op was created under the
\* scope, and the same check then returned false
C7_Witness ==
  /\ last.op = "check" /\ last.again /\ ~last.res
  /\ last.scope # NoOp
  /\ \E x \in Insertable : x \in TilableUnder(last.scope)

\* C8: whenever the exhaustiveness predicate succeeds during a match of the
\* root, every tilable op under the root's scope is the root or the op that
\* a matcher of the declared set captured during this match call; also when
\* the matcher objects have matched other ops before.
C8_NoneUnclassified ==
  (last.op = "match") =>
    \A i \in 1..Len(last.chk) :
      LET c == last.chk[i] IN
      c.res => \A o \in TilableUnder(c.scope) :
                 \/ o = c.root
                 \/ \E j \in 1..Len(c.ms) : c.ms[j] \in c.fresh /\ c.cap[c.ms[j]] = o

\* C10: calling match on the same op twice in a row on an unchanged graph
\* returns the same boolean both times and leaves every capture cell and
\* every captured slot after the second call as after the first.
C10_Idempotent ==
  (last.op = "match" /\ last.again) =>
    /\ last.res = last.prevRes
    /\ captured = last.pre.cap
    /\ cells = last.pre.cells

RECURSIVE Concat(_, _)
\* getPayloadGroup(i) \o ... \o getPayloadGroup(count - 1)
Concat(i, count) ==
  IF i >= count THEN <<>>
  ELSE getPayloadGroup(payloadOperations, payloadGroupLengths, i) \o Concat(i + 1, count)

\* C9: with the group lengths summing to the number of operations, for a
\* group index i below the number of groups getPayloadGroup(i) is the
\* operations at indices [sum(lengths[0..i-1]), sum(lengths[0..i-1]) +
\* lengths[i]) in order; the groups are pairwise disjoint and their
\* concatenation in index order is the whole list; an index at or beyond the
\* number of groups fails the assertion and yields no group.
C9_PayloadGroup ==
  (last.op = "group") =>
    LET lengths == payloadGroupLengths
        count == Len(lengths)
        before == SumSeq(SubSeq(lengths, 1, last.pos))
    IN /\ SumSeq(lengths) = Len(payloadOperations)
       /\ last.pos < count =>
            last.group = [k \in 1..lengths[last.pos + 1] |-> payloadOperations[before + k]]
       /\ last.pos >= count => last.group = AssertionFailure
       /\ Concat(0, count) = payloadOperations
       /\ \A i, j \in 0..(count - 1) :
            i # j => Range(getPayloadGroup(payloadOperations, lengths, i))
                       \cap Range(getPayloadGroup(payloadOperations, lengths, j)) = {}

\* C9 witness: lengths [2, 0, 3], group 2 is the operations 2, 3, 4 (and
\* group 1 is empty)
C9_Witness ==
  /\ last.op = "group" /\ last.pos = 2
  /\ payloadGroupLengths = <<2, 0, 3>>
  /\ last.group = <<2, 3, 4>>
  /\ getPayloadGroup(payloadOperations, payloadGroupLengths, 1) = <<>>


\* the last call was reduction.match on a structured op
ReductionMatched == last.op = "match" /\ last.m = "reduction" /\ IsLinalg(last.n)

\* C11: whenever the reduction matcher of makeReductionMatcher returns true
\* on an op of rank r, then 2 <= r <= 4, reductionRank = r,
\* reductionDimensionSize is the size of dimension r - 1 and
\* mostMinorParallelDimensionSize the size of dimension r - 2; and the two
\* dimension captures only ever run with an index that is in range for the
\* op, on any op, because the rank >= 2 predicate comes before them.
C11_ReductionCaptures ==
  ReductionMatched =>
    LET r == NumLoops(last.n) IN
    /\ ~crashed
    /\ ~last.oob
    /\ \A j \in 1..Len(TopRan) :
         LET p == reductionPredicates[TopRan[j][2]] IN
         p.kind = "dimCapture" => InRange(p.dims[1], r)
    /\ last.res =>
         /\ r \in 2..4
         /\ cells["reductionRank"] = r
         /\ cells["reductionDimensionSize"] = ir[last.n].shape[r]
         /\ cells["mostMinorParallelDimensionSize"] = ir[last.n].shape[r - 1]

\* C11 witness: the 128 x 64 parallel / reduction op matched and the captures
\* are 2, 64 and 128
C11_Witness ==
  /\ ReductionMatched /\ last.res /\ last.n = "r2"
  /\ cells["reductionRank"] = 2
  /\ cells["reductionDimensionSize"] = 64
  /\ cells["mostMinorParallelDimensionSize"] = 128

\* C12: the reduction matcher accepts a root op only if it has exactly one
\* input operand, whose indexing map is a projected permutation, and exactly
\* one output operand, whose indexing map is a permutation, whose element
\* type is 32 bits wide and which is populated by a single-combiner
\* reduction; an op whose output element type is 16 bits wide is rejected.
C12_AcceptsOnlyPermutationOutput ==
  ReductionMatched =>
    /\ last.res =>
         /\ NumDpsInputs(last.n) = 1
         /\ IsProjectedPermutation(InputMaps(last.n)[1])
         /\ NumDpsInits(last.n) = 1
         /\ IsPermutation(InitMaps(last.n)[1])
         /\ InitBitWidth(last.n, 0) = 32
         /\ NumCombiners(last.n, 0) = 1
    /\ (NumDpsInits(last.n) >= 1 /\ InitBitWidth(last.n, 0) = 16) => ~last.res

\* C12 as amended: the same, with the output operand's indexing map a
\* projected permutation (which a permutation is, too).
C12_AcceptsOnlyProjectedOutput ==
  ReductionMatched =>
    /\ last.res =>
         /\ NumDpsInputs(last.n) = 1
         /\ IsProjectedPermutation(InputMaps(last.n)[1])
         /\ NumDpsInits(last.n) = 1
         /\ IsProjectedPermutation(InitMaps(last.n)[1])
         /\ InitBitWidth(last.n, 0) = 32
         /\ NumCombiners(last.n, 0) = 1
    /\ (NumDpsInits(last.n) >= 1 /\ InitBitWidth(last.n, 0) = 16) => ~last.res

\* C12 witness: the matcher accepted a root whose one output has a projected
\* permutation that is not a permutation as its map
C12_Witness ==
  /\ ReductionMatched /\ last.res
  /\ NumDpsInputs(last.n) = 1 /\ NumDpsInits(last.n) = 1
  /\ InitMaps(last.n)[1] = MapProj
  /\ InitBitWidth(last.n, 0) = 32

RECURSIVE FollowFirstUse(_, _)
\* the operation reached from val by following, at every value, its first
\* use only: into the loop output tied to that operand, through a slice to
\* its result, else the user itself; NoOp when a value on the way has no use
FollowFirstUse(val, pres) ==
  LET uses == Uses(val, pres) IN
  IF uses = <<>> THEN NoOp
  ELSE LET use == uses[1]
           user == use.owner
           tied == {b \in Range(OutputBlockArguments(user)) :
                      TiedOpOperand(b) = use.index} IN
       IF IsForeachThread(user)
       THEN IF tied = {} THEN user
            ELSE FollowFirstUse(BlockArg(CHOOSE b \in tied : TRUE), pres)
       ELSE IF IsExtractSlice(user) THEN FollowFirstUse(Res(user, 0), pres)
       ELSE user

\* C13: the forward subset traversal follows the first use of the current
\* value: a loop use leads to the loop output tied to that operand, or to the
\* loop itself when no output is tied to it; a slice use leads to the slice's
\* result; any other use is the operation returned.  So a traversal that has
\* returned has returned the operation the chain of first uses ends at.
C13_FollowsFirstUse ==
  (walk.pc = "returned" /\ walk.dir = "forward"
   /\ FollowFirstUse(walk.start, present) # NoOp)
    => walk.op = FollowFirstUse(walk.start, present)

\* C14: every traversal terminates.  A traversal that is running, backward
\* or forward, eventually returns; in particular the forward traversal from
\* a value that has no uses at all does.
C14_TraversalTerminates == (walk.pc = "running") ~> (walk.pc = "returned")

\* C15: output(p, SubsetOf(m)) normalizes p and tests it against the number
\* of inits of the op.  For p in range of the inits it returns what m.match
\* returns on the op the backward traversal of init p ends at, m.match being
\* called on that op once and nothing being read out of bounds, however many
\* inputs the op has; for p at or beyond the number of inits it returns
\* false without a nested call and without reading an operand.  (Positions
\* below minus the number of inits are the matter of C16.)
C15_OutputSubsetOverInits ==
  Probed({"outputSubset"}) =>
    LET inits == ir[last.n].inits
        pos == last.p.dims[1]
        m == last.p.nested
    IN IF InRange(pos, Len(inits))
       THEN LET producer == traverseSubsetsBackwards(inits[Norm(pos, Len(inits)) + 1])
                holds == producer \in Ops /\ NestedHolds(m, producer)
            IN /\ ~crashed
               /\ ~last.oob
               /\ last.res = holds
               /\ last.calls = <<<<m, producer, holds>>>>
       ELSE pos >= Len(inits) =>
              (~last.res /\ ~crashed /\ ~last.oob /\ last.calls = <<>>)

\* the kinds of predicate that take an operand or result position
PositionalKinds == {"input", "output", "outputWidth", "outputCombiner", "result",
                    "inputSubset", "outputSubset", "resultSubset"}

\* the number of operands or results the position of predicate p of kind
\* p.kind counts over on the op n
CountOf(p, n) ==
  CASE p.kind \in {"input", "inputSubset"} -> NumDpsInputs(n)
    [] p.kind \in {"result", "resultSubset"} -> NumResults(n)
    [] OTHER -> NumDpsInits(n)

\* C16: every operand / result positional predicate (input, output, output
\* bit width, single-combiner reduction, result use, and the subset-of
\* variants) whose position, normalized as p >= 0 ? p : count + p, is outside
\* [0, count) returns false whatever the optional flag, calls no nested
\* matcher and reads no operand or result outside [0, count).
C16_OutOfRangePosition ==
  (Probed(PositionalKinds)
   /\ ~InRange(last.p.dims[1], CountOf(last.p, last.n)))
    => (~last.res /\ ~crashed /\ ~last.oob /\ ~last.hang /\ last.calls = <<>>)

====
